---------------------------- MODULE Spec2Model ----------------------------
(***************************************************************************)
(* Model of the CookinGPT recipe recommender: the ingredient normalizer,   *)
(* the similarity scorer, the lexical matcher, the semantic and keyword    *)
(* retrievers, the hybrid ranker, the natural-language extractor and the   *)
(* CSV ingestion that writes the knowledge base file.                      *)
(*                                                                         *)
(* Text is a sequence of one-character strings.  A score is an integer     *)
(* number of 1/ScoreDen units, a similarity or threshold an integer number *)
(* of 1/SimScale units, so that the arithmetic of the code is exact.       *)
(***************************************************************************)
EXTENDS Integers, Sequences, FiniteSets, TLC

VARIABLES
    kb,                 \* content of recipe_knowledge_base.json: a list of recipe dicts
    pc,                 \* "idle", then the position of the request being handled
    user_ingredients,   \* IngredientSearchRequest.ingredients
    user_input,         \* RecipeSearchRequest.user_input
    top_k,              \* request top_k
    threshold,          \* request threshold, in 1/SimScale units
    embed_reply,        \* what get_embedding does if called: None (it raises) or Some(vector)
    client,             \* whether llm_parsing_service.client is configured
    llm_replies,        \* what the successive LLM calls do: "raise", "malformed" or a text
    semantic_results,   \* what find_recipes_by_ingredients returned to hybrid_recipe_search
    recommendations,    \* the list the request returned
    parsed_ingredients, \* ingredients returned by parse_user_input / in the response
    preferences,        \* preferences returned by parse_user_input
    embed_calls,        \* calls of get_embedding made by the request
    llm_calls,          \* calls of client.chat.complete made by the request
    raised,             \* whether the operation raised to its caller
    repeat_results,     \* the list a second hybrid_recipe_search of the same request returned
    kb_open,            \* the file is open for writing: truncated, its JSON text unfinished
    uploads,            \* files of the /ingest-recipes request
    file_pos,           \* position of the handler's loop in uploads
    pending,            \* recipes_data that save_recipes_to_kb is writing
    previous,           \* what the file held when save_recipes_to_kb opened it
    processed_files,    \* positions of the files the handler has processed
    total_recipes,      \* sum of the processed files' recipe counts
    observed,           \* what a concurrent load_recipes_from_kb returned, if one ran
    call                \* a service function called by itself: its name, arguments and result

search_vars == <<user_ingredients, user_input, top_k, threshold, embed_reply, client,
                 llm_replies, semantic_results, recommendations, parsed_ingredients,
                 preferences, embed_calls, llm_calls, raised, repeat_results>>

ingest_vars == <<kb_open, uploads, file_pos, pending, previous, processed_files,
                 total_recipes, observed>>

vars == <<kb, pc, search_vars, ingest_vars, call>>

---------------------------------------------------------------------------
(* Characters and Python string primitives *)

Whitespace == {" ", "\n", "\t"}

Digits == {"0", "1", "2", "3", "4", "5", "6", "7", "8", "9"}

UpperLetters == <<"A", "B", "C", "D", "E", "F", "G", "H", "I", "J", "K", "L", "M",
                  "N", "O", "P", "Q", "R", "S", "T", "U", "V", "W", "X", "Y", "Z">>

LowerLetters == <<"a", "b", "c", "d", "e", "f", "g", "h", "i", "j", "k", "l", "m",
                  "n", "o", "p", "q", "r", "s", "t", "u", "v", "w", "x", "y", "z">>

Min(S) == CHOOSE x \in S : \A y \in S : x <= y

lower_char(c) ==
    IF \E i \in 1..Len(UpperLetters) : UpperLetters[i] = c
    THEN LowerLetters[CHOOSE i \in 1..Len(UpperLetters) : UpperLetters[i] = c]
    ELSE c

\* str.lower()
lower(s) == [i \in 1..Len(s) |-> lower_char(s[i])]

RECURSIVE drop_while(_, _)
\* s without its longest prefix of characters in set cs
drop_while(s, cs) ==
    IF s # <<>> /\ s[1] \in cs THEN drop_while(Tail(s), cs) ELSE s

RECURSIVE rstrip(_)
rstrip(s) ==
    IF s # <<>> /\ s[Len(s)] \in Whitespace THEN rstrip(SubSeq(s, 1, Len(s) - 1)) ELSE s

\* str.strip()
strip(s) == rstrip(drop_while(s, Whitespace))

\* sub in s
contains(sub, s) ==
    \E i \in 0..(Len(s) - Len(sub)) : SubSeq(s, i + 1, i + Len(sub)) = sub

RECURSIVE split(_, _)
\* str.split(sep) for a one-character separator: empty parts are kept
split(s, sep) ==
    IF \E i \in 1..Len(s) : s[i] = sep
    THEN LET i == Min({j \in 1..Len(s) : s[j] = sep})
         IN  <<SubSeq(s, 1, i - 1)>> \o split(SubSeq(s, i + 1, Len(s)), sep)
    ELSE <<s>>

RECURSIVE split_words(_)
\* str.split() without argument: the whitespace-delimited words
split_words(s) ==
    LET t == drop_while(s, Whitespace)
    IN  IF t = <<>> THEN <<>>
        ELSE LET stops == {j \in 1..Len(t) : t[j] \in Whitespace}
                 n == IF stops = {} THEN Len(t) + 1 ELSE Min(stops)
             IN  <<SubSeq(t, 1, n - 1)>> \o split_words(SubSeq(t, n, Len(t)))

Range(s) == {s[i] : i \in 1..Len(s)}

RECURSIVE flatten(_)
\* list.extend over a list of lists
flatten(ss) == IF ss = <<>> THEN <<>> ELSE Head(ss) \o flatten(Tail(ss))

\* list[:k], negative k counting from the end
slice_to(lst, k) ==
    IF k >= 0
    THEN SubSeq(lst, 1, IF k < Len(lst) THEN k ELSE Len(lst))
    ELSE SubSeq(lst, 1, IF Len(lst) + k > 0 THEN Len(lst) + k ELSE 0)

---------------------------------------------------------------------------
(* services/recipe_service.py: normalize_ingredients *)

Separators == <<",", ";", "\n", "|">>

\* re.sub(r'^\d+\s*', '', s)
remove_leading_number(s) ==
    IF s # <<>> /\ s[1] \in Digits
    THEN drop_while(drop_while(s, Digits), Whitespace)
    ELSE s

\* whether t, a suffix of the text, matches \s+\d+\s*$
is_trailing_number(t) ==
    LET a == drop_while(t, Whitespace)
        b == drop_while(a, Digits)
    IN  /\ Len(a) < Len(t)
        /\ Len(b) < Len(a)
        /\ drop_while(b, Whitespace) = <<>>

\* re.sub(r'\s+\d+\s*$', '', s): the leftmost match is removed
remove_trailing_number(s) ==
    LET starts == {p \in 1..Len(s) : is_trailing_number(SubSeq(s, p, Len(s)))}
    IN  IF starts = {} THEN s ELSE SubSeq(s, 1, Min(starts) - 1)

RECURSIVE clean_ingredients(_)
\* the clean-up loop of normalize_ingredients
clean_ingredients(ingredients) ==
    IF ingredients = <<>> THEN <<>>
    ELSE LET ingredient == Head(ingredients)
             cleaned == strip(remove_trailing_number(remove_leading_number(strip(ingredient))))
         IN  (IF ingredient # <<>> /\ cleaned # <<>> THEN <<cleaned>> ELSE <<>>)
                 \o clean_ingredients(Tail(ingredients))

\* the split on the last separator of the list that occurs, not the first
normalize_ingredients_last_separator(ingredients_text) ==
    IF ingredients_text = <<>> THEN <<>>
    ELSE LET present == {k \in 1..Len(Separators) : Separators[k] \in Range(ingredients_text)}
             last == CHOOSE k \in present : \A j \in present : j <= k
             parts == IF present = {} THEN <<>> ELSE split(ingredients_text, Separators[last])
             ingredients == [i \in 1..Len(parts) |-> lower(strip(parts[i]))]
         IN  clean_ingredients(IF ingredients = <<>>
                               THEN <<lower(strip(ingredients_text))>>
                               ELSE ingredients)

normalize_ingredients(ingredients_text) ==
    IF ingredients_text = <<>> THEN <<>>
    ELSE LET present == {k \in 1..Len(Separators) : Separators[k] \in Range(ingredients_text)}
             parts == IF present = {} THEN <<>>
                      ELSE split(ingredients_text, Separators[Min(present)])
             ingredients == [i \in 1..Len(parts) |-> lower(strip(parts[i]))]
         IN  clean_ingredients(IF ingredients = <<>>
                               THEN <<lower(strip(ingredients_text))>>
                               ELSE ingredients)

\* the loop that normalizes and flattens the user's ingredient list
normalize_user_ingredients(ingredients) ==
    flatten([i \in 1..Len(ingredients) |-> normalize_ingredients(ingredients[i])])

---------------------------------------------------------------------------
(* services/recipe_search_service.py: lexical matching *)

\* the partial-match test of one user ingredient against one recipe ingredient
\* the test without the word overlap
is_substring_match(user_ingredient, recipe_ingredient) ==
    \/ contains(user_ingredient, recipe_ingredient)
    \/ contains(recipe_ingredient, user_ingredient)

is_partial_match(user_ingredient, recipe_ingredient) ==
    \/ contains(user_ingredient, recipe_ingredient)
    \/ contains(recipe_ingredient, user_ingredient)
    \/ \E word \in Range(split_words(user_ingredient)) :
           word \in Range(split_words(recipe_ingredient))

is_matched(recipe_ingredient, user_ingredients_normalized) ==
    \E i \in 1..Len(user_ingredients_normalized) :
        is_partial_match(user_ingredients_normalized[i], recipe_ingredient)

\* the turn with the is_matched flag never set: a matched ingredient is
\* listed as missing too
classify_ingredient_flag_lost(lists, recipe_ingredient, user_ingredients_normalized) ==
    IF is_matched(recipe_ingredient, user_ingredients_normalized)
    THEN [matched |-> Append(lists.matched, recipe_ingredient),
          missing |-> Append(lists.missing, recipe_ingredient)]
    ELSE [lists EXCEPT !.missing = Append(@, recipe_ingredient)]

\* one turn of the loop over recipe_ingredients: the ingredient goes to
\* matched_ingredients if some user ingredient matches it, else to missing_ingredients
classify_ingredient(lists, recipe_ingredient, user_ingredients_normalized) ==
    IF is_matched(recipe_ingredient, user_ingredients_normalized)
    THEN [lists EXCEPT !.matched = Append(@, recipe_ingredient)]
    ELSE [lists EXCEPT !.missing = Append(@, recipe_ingredient)]

RECURSIVE classify_from(_, _, _)
classify_from(lists, recipe_ingredients, user_ingredients_normalized) ==
    IF recipe_ingredients = <<>> THEN lists
    ELSE classify_from(classify_ingredient(lists, Head(recipe_ingredients),
                                           user_ingredients_normalized),
                       Tail(recipe_ingredients), user_ingredients_normalized)

\* the matched_ingredients and missing_ingredients lists the loop builds
classify(recipe_ingredients, user_ingredients_normalized) ==
    classify_from([matched |-> <<>>, missing |-> <<>>],
                  recipe_ingredients, user_ingredients_normalized)

matched_of(recipe_ingredients, user_ingredients_normalized) ==
    classify(recipe_ingredients, user_ingredients_normalized).matched

missing_of(recipe_ingredients, user_ingredients_normalized) ==
    classify(recipe_ingredients, user_ingredients_normalized).missing

---------------------------------------------------------------------------
(* services/recipe_search_service.py: similarity and scores *)

\* an absent (null) embedding, and a present embedding list
None == <<>>

Some(v) == <<v>>

\* similarities and thresholds count 1/SimScale; the embedding vectors of the
\* model have norm 1 or 5, so every cosine is a whole number of these units
SimScale == 5 * 5

\* match ratios count 1/RatioScale
RatioScale == 3 * 4 * 5

\* the weights of combined_score, in tenths
SemanticWeight == 6

LexicalWeight == 4

\* match_score counts 1/ScoreDen
ScoreDen == 10 * SimScale * RatioScale

Dot(a, b) ==
    LET S[i \in 0..Len(a)] == IF i = 0 THEN 0 ELSE S[i - 1] + a[i] * b[i]
    IN  S[Len(a)]

\* np.linalg.norm, for a vector whose norm is a whole number
Norm(a) == CHOOSE n \in 0..Dot(a, a) : n * n = Dot(a, a)

\* the dot product left undivided by the norms
cosine_similarity_undivided(vec_a, vec_b) ==
    IF Len(vec_a) # Len(vec_b) THEN 0
    ELSE IF Norm(vec_a) = 0 \/ Norm(vec_b) = 0 THEN 0
    ELSE Dot(vec_a, vec_b) * SimScale

\* vectors of different lengths make np.dot raise; the handler returns 0.0
cosine_similarity(vec_a, vec_b) ==
    IF Len(vec_a) # Len(vec_b) THEN 0
    ELSE IF Norm(vec_a) = 0 \/ Norm(vec_b) = 0 THEN 0
    ELSE (Dot(vec_a, vec_b) * SimScale) \div (Norm(vec_a) * Norm(vec_b))

\* len(matched) / len(recipe_ingredients) if recipe_ingredients else 0
match_ratio(matches, recipe_ingredients) ==
    IF recipe_ingredients # <<>>
    THEN (matches * RatioScale) \div Len(recipe_ingredients)
    ELSE 0

\* the score with the two weights exchanged
combined_score_exchanged(similarity_score, ratio) ==
    LexicalWeight * similarity_score * RatioScale + SemanticWeight * ratio * SimScale

\* (similarity_score * 0.6) + (match_ratio * 0.4)
combined_score(similarity_score, ratio) ==
    SemanticWeight * similarity_score * RatioScale + LexicalWeight * ratio * SimScale

\* the keyword path's match_score is the bare ratio
keyword_score(ratio) == ratio * 10 * SimScale

RECURSIVE insert_by_score(_, _)
insert_by_score(sorted, x) ==
    IF sorted = <<>> THEN <<x>>
    ELSE IF Head(sorted).match_score >= x.match_score
         THEN <<Head(sorted)>> \o insert_by_score(Tail(sorted), x)
         ELSE <<x>> \o sorted

RECURSIVE sort_onto(_, _)
sort_onto(sorted, rest) ==
    IF rest = <<>> THEN sorted
    ELSE sort_onto(insert_by_score(sorted, Head(rest)), Tail(rest))

\* list.sort(key=lambda x: x.match_score, reverse=True): stable, descending
sort_by_score(lst) == sort_onto(<<>>, lst)

---------------------------------------------------------------------------
(* services/recipe_search_service.py: the retrievers and the hybrid ranker *)

\* load_recipes_from_kb: the parsed content of the knowledge base file
load_recipes_from_kb(file) == file

recommendation(recipe_data, score, user_ingredients_normalized) ==
    LET recipe_ingredients == normalize_ingredients(recipe_data.ingredients)
    IN  [recipe_id |-> recipe_data.recipe_id,
         title |-> recipe_data.title,
         ingredients |-> recipe_data.ingredients,
         steps |-> recipe_data.steps,
         match_score |-> score,
         matched_ingredients |-> matched_of(recipe_ingredients, user_ingredients_normalized),
         missing_ingredients |-> missing_of(recipe_ingredients, user_ingredients_normalized)]

\* the keyword loop's recommendation for one recipe: none unless matches > 0
keyword_candidate(recipe_data, user_ingredients_normalized) ==
    LET recipe_ingredients == normalize_ingredients(recipe_data.ingredients)
        matches == Len(matched_of(recipe_ingredients, user_ingredients_normalized))
    IN  IF matches > 0
        THEN <<recommendation(recipe_data,
                              keyword_score(match_ratio(matches, recipe_ingredients)),
                              user_ingredients_normalized)>>
        ELSE <<>>

find_recipes_by_keywords(file, ingredients, k) ==
    LET recipes_data == load_recipes_from_kb(file)
        user_ingredients_normalized == normalize_user_ingredients(ingredients)
        found == flatten([i \in 1..Len(recipes_data) |->
                             keyword_candidate(recipes_data[i], user_ingredients_normalized)])
    IN  IF recipes_data = <<>> THEN <<>>
        ELSE slice_to(sort_by_score(found), k)

\* the has_embeddings test over the corpus
has_embeddings(recipes_data) ==
    \E i \in 1..Len(recipes_data) :
        /\ recipes_data[i].embedding # None
        /\ recipes_data[i].embedding[1] # <<>>
        /\ Len(recipes_data[i].embedding[1]) > 0

\* the semantic loop admitting only similarities above the threshold
semantic_candidate_above(recipe_data, query_embedding, user_ingredients_normalized, min_similarity) ==
    IF recipe_data.embedding = None \/ recipe_data.embedding[1] = <<>> THEN <<>>
    ELSE LET similarity_score == cosine_similarity(query_embedding, recipe_data.embedding[1])
             recipe_ingredients == normalize_ingredients(recipe_data.ingredients)
             matched == matched_of(recipe_ingredients, user_ingredients_normalized)
         IN  IF similarity_score > min_similarity
             THEN <<recommendation(recipe_data,
                                   combined_score(similarity_score,
                                                  match_ratio(Len(matched), recipe_ingredients)),
                                   user_ingredients_normalized)>>
             ELSE <<>>

\* the semantic loop's recommendation for one recipe: none without an embedding
\* or below the threshold
semantic_candidate(recipe_data, query_embedding, user_ingredients_normalized, min_similarity) ==
    IF recipe_data.embedding = None \/ recipe_data.embedding[1] = <<>> THEN <<>>
    ELSE LET similarity_score == cosine_similarity(query_embedding, recipe_data.embedding[1])
             recipe_ingredients == normalize_ingredients(recipe_data.ingredients)
             matched == matched_of(recipe_ingredients, user_ingredients_normalized)
         IN  IF similarity_score >= min_similarity
             THEN <<recommendation(recipe_data,
                                   combined_score(similarity_score,
                                                  match_ratio(Len(matched), recipe_ingredients)),
                                   user_ingredients_normalized)>>
             ELSE <<>>

\* whether find_recipes_by_ingredients reaches its get_embedding call
calls_get_embedding(file) ==
    load_recipes_from_kb(file) # <<>> /\ has_embeddings(load_recipes_from_kb(file))

\* reply is what get_embedding does if called: None (it raises) or Some(vector)
find_recipes_by_ingredients(file, ingredients, k, min_similarity, reply) ==
    LET recipes_data == load_recipes_from_kb(file)
        user_ingredients_normalized == normalize_user_ingredients(ingredients)
        found == flatten([i \in 1..Len(recipes_data) |->
                             semantic_candidate(recipes_data[i], reply[1],
                                                user_ingredients_normalized, min_similarity)])
    IN  IF recipes_data = <<>> THEN <<>>
        ELSE IF ~has_embeddings(recipes_data)
             THEN find_recipes_by_keywords(file, ingredients, k)
        ELSE IF reply = None
             THEN find_recipes_by_keywords(file, ingredients, k)
        ELSE slice_to(sort_by_score(found), k)

RECURSIVE merge_keyword_results(_, _, _)
\* the merge loop: append the results whose recipe_id is not seen, stop at k
merge_keyword_results(results, keyword_results, k) ==
    IF keyword_results = <<>> THEN results
    ELSE LET result == Head(keyword_results)
             seen_ids == {results[i].recipe_id : i \in 1..Len(results)}
         IN  IF result.recipe_id \notin seen_ids
             THEN IF Len(results) + 1 >= k
                  THEN Append(results, result)
                  ELSE merge_keyword_results(Append(results, result), Tail(keyword_results), k)
             ELSE merge_keyword_results(results, Tail(keyword_results), k)

\* the merge without the final sort
hybrid_merge_unsorted(semantic, file, ingredients, k) ==
    slice_to(IF Len(semantic) < k
             THEN merge_keyword_results(
                      semantic, find_recipes_by_keywords(file, ingredients, k), k)
             ELSE semantic, k)

\* the merge run also when the semantic retriever returned top_k results
hybrid_merge_always(semantic, file, ingredients, k) ==
    slice_to(sort_by_score(merge_keyword_results(
                 semantic, find_recipes_by_keywords(file, ingredients, k), k)), k)

\* hybrid_recipe_search after its call of find_recipes_by_ingredients
hybrid_merge(semantic, file, ingredients, k) ==
    slice_to(sort_by_score(IF Len(semantic) < k
                           THEN merge_keyword_results(
                                    semantic, find_recipes_by_keywords(file, ingredients, k), k)
                           ELSE semantic), k)

hybrid_recipe_search(file, ingredients, k, min_similarity, reply) ==
    hybrid_merge(find_recipes_by_ingredients(file, ingredients, k, min_similarity, reply),
                 file, ingredients, k)

\* hybrid_recipe_search with seen_ids kept from the call before
hybrid_recipe_search_seen_kept(earlier, file, ingredients, k, min_similarity, reply) ==
    SelectSeq(hybrid_recipe_search(file, ingredients, k, min_similarity, reply),
              LAMBDA r : \A i \in 1..Len(earlier) : earlier[i].recipe_id # r.recipe_id)

\* hybrid_recipe_search called after an earlier call returned the list earlier:
\* the file is loaded again and recommendations, seen_ids and the merged list
\* are locals built anew, so nothing of the earlier call enters
hybrid_recipe_search_again(earlier, file, ingredients, k, min_similarity, reply) ==
    hybrid_recipe_search(file, ingredients, k, min_similarity, reply)

---------------------------------------------------------------------------
(* services/llm_parsing_service.py: the natural-language extractor *)

\* the index just after the longest run of characters in cs that starts at q
skip_run(s, q, cs) ==
    LET stops == {j \in q..Len(s) : s[j] \notin cs}
    IN  IF stops = {} THEN Len(s) + 1 ELSE Min(stops)

\* the index just after an optional character c at q
skip_optional(s, q, c) == IF q <= Len(s) /\ s[q] = c THEN q + 1 ELSE q

starts_at(s, p, literal) ==
    p + Len(literal) - 1 <= Len(s) /\ SubSeq(s, p, p + Len(literal) - 1) = literal

\* a fallback pattern: literal\s+([^.]+), or with plural literals?\s*:?\s*([^.]+)
Pattern(literal, plural) == [literal |-> literal, plural |-> plural]

\* where the greedy prefix of the pattern, matched at p, ends (the next index)
prefix_end(pattern, s, p) ==
    LET q == p + Len(pattern.literal)
    IN  IF pattern.plural
        THEN skip_run(s, skip_optional(s, skip_run(s, skip_optional(s, q, "s"), Whitespace),
                                       ":"), Whitespace)
        ELSE skip_run(s, q, Whitespace)

\* where the captured group of a match at p starts: after the greedy prefix, or
\* one character earlier when backtracking has to give the group a character;
\* 0 when the pattern does not match at p
group_start(pattern, s, p) ==
    LET q == p + Len(pattern.literal)
        g == prefix_end(pattern, s, p)
        least == IF pattern.plural THEN q ELSE q + 1
    IN  IF ~starts_at(s, p, pattern.literal) \/ g < least THEN 0
        ELSE IF g <= Len(s) /\ s[g] # "." THEN g
        ELSE IF g - 1 >= least THEN g - 1
        ELSE 0

\* the last index of the group [^.]+ that starts at g
group_end(s, g) == skip_run(s, g, {s[j] : j \in 1..Len(s)} \ {"."}) - 1

RECURSIVE findall_from(_, _, _)
findall_from(pattern, s, p) ==
    IF p > Len(s) THEN <<>>
    ELSE LET g == group_start(pattern, s, p)
         IN  IF g = 0 THEN findall_from(pattern, s, p + 1)
             ELSE <<SubSeq(s, g, group_end(s, g))>>
                      \o findall_from(pattern, s, group_end(s, g) + 1)

\* re.findall(pattern, s): the captured groups of the successive matches
findall(pattern, s) == findall_from(pattern, s, 1)

RECURSIVE re_split(_)
\* re.split(r'[,;]\s*', s)
re_split(s) ==
    LET cuts == {j \in 1..Len(s) : s[j] \in {",", ";"}}
    IN  IF cuts = {} THEN <<s>>
        ELSE <<SubSeq(s, 1, Min(cuts) - 1)>>
                 \o re_split(drop_while(SubSeq(s, Min(cuts) + 1, Len(s)), Whitespace))

RECURSIVE long_parts(_)
\* the stripped parts that are longer than one character
long_parts(parts) ==
    IF parts = <<>> THEN <<>>
    ELSE (IF Len(strip(Head(parts))) > 1 THEN <<strip(Head(parts))>> ELSE <<>>)
             \o long_parts(Tail(parts))

\* the tokens one pattern contributes
pattern_tokens(pattern, s) ==
    LET matches == findall(pattern, s)
    IN  flatten([i \in 1..Len(matches) |-> long_parts(re_split(strip(matches[i])))])

\* the tokens a list of patterns contributes, in pattern order
collect(patterns, s) ==
    flatten([i \in 1..Len(patterns) |-> pattern_tokens(patterns[i], s)])

RECURSIVE dedupe_onto(_, _)
dedupe_onto(kept, rest) ==
    IF rest = <<>> THEN kept
    ELSE dedupe_onto(IF Head(rest) \in Range(kept) THEN kept ELSE Append(kept, Head(rest)),
                     Tail(rest))

\* the list with its repeats left in
with_repeats(lst) == lst

\* list(dict.fromkeys(lst))
dedupe(lst) == dedupe_onto(<<>>, lst)

ingredient_patterns ==
    <<Pattern(<<"i", " ", "h", "a", "v", "e">>, FALSE),
      Pattern(<<"i", "'", "v", "e", " ", "g", "o", "t">>, FALSE),
      Pattern(<<"i", "n", "g", "r", "e", "d", "i", "e", "n", "t">>, TRUE),
      Pattern(<<"a", "v", "a", "i", "l", "a", "b", "l", "e">>, FALSE)>>

preference_patterns ==
    <<Pattern(<<"i", " ", "w", "a", "n", "t">>, FALSE),
      Pattern(<<"i", " ", "n", "e", "e", "d">>, FALSE),
      Pattern(<<"s", "o", "m", "e", "t", "h", "i", "n", "g">>, FALSE),
      Pattern(<<"f", "o", "r">>, FALSE),
      Pattern(<<"s", "e", "r", "v", "i", "n", "g">>, TRUE),
      Pattern(<<"q", "u", "i", "c", "k">>, FALSE)>>

\* _fallback_parsing
fallback_parsing(text) ==
    LET found == collect(ingredient_patterns, lower(text))
        ingredients == IF found = <<>> THEN long_parts(re_split(text)) ELSE found
    IN  [ingredients |-> dedupe(ingredients),
         preferences |-> dedupe(collect(preference_patterns, lower(text)))]

RECURSIVE replace(_, _)
\* str.replace(old, "")
replace(s, old) ==
    IF s = <<>> THEN <<>>
    ELSE IF starts_at(s, 1, old) THEN replace(SubSeq(s, Len(old) + 1, Len(s)), old)
    ELSE <<Head(s)>> \o replace(Tail(s), old)

RECURSIVE nonempty_parts(_)
\* [x.strip() for x in parts if x.strip()]
nonempty_parts(parts) ==
    IF parts = <<>> THEN <<>>
    ELSE (IF strip(Head(parts)) # <<>> THEN <<strip(Head(parts))>> ELSE <<>>)
             \o nonempty_parts(Tail(parts))

Output1 == <<"O", "u", "t", "p", "u", "t", " ", "1", ":">>

Output2 == <<"O", "u", "t", "p", "u", "t", " ", "2", ":">>

\* one turn of the loop over the response lines
parse_line(lists, raw_line) ==
    LET line == strip(raw_line)
        value(label) == strip(replace(line, label))
    IN  IF starts_at(line, 1, Output1)
        THEN IF value(Output1) # <<>>
             THEN [lists EXCEPT !.ingredients = nonempty_parts(split(value(Output1), ","))]
             ELSE lists
        ELSE IF starts_at(line, 1, Output2)
        THEN IF value(Output2) # <<>>
             THEN [lists EXCEPT !.preferences = nonempty_parts(split(value(Output2), ","))]
             ELSE lists
        ELSE lists

RECURSIVE parse_lines(_, _)
parse_lines(lists, lines) ==
    IF lines = <<>> THEN lists
    ELSE parse_lines(parse_line(lists, Head(lines)), Tail(lines))

\* _parse_llm_response
parse_llm_response(response) ==
    parse_lines([ingredients |-> <<>>, preferences |-> <<>>], split(strip(response), "\n"))

\* what one call of client.chat.complete does: it raises, it returns a response
\* without usable content (no choice, content None), or it returns a text
LlmRaises == [kind |-> "raise", content |-> <<>>]

LlmNoContent == [kind |-> "no_content", content |-> <<>>]

LlmText(text) == [kind |-> "content", content |-> text]

\* parse_user_input with the LLM's exception escaping to the caller
parse_user_input_unguarded(text, has_client, reply) ==
    IF ~has_client
    THEN [parsed |-> fallback_parsing(text), llm_calls |-> 0, raised |-> FALSE]
    ELSE IF reply.kind # "content"
    THEN [parsed |-> [ingredients |-> <<>>, preferences |-> <<>>],
          llm_calls |-> 1, raised |-> TRUE]
    ELSE [parsed |-> parse_llm_response(strip(reply.content)),
          llm_calls |-> 1, raised |-> FALSE]

\* parse_user_input: the fallback without a client or when the try block raises
parse_user_input(text, has_client, reply) ==
    IF ~has_client
    THEN [parsed |-> fallback_parsing(text), llm_calls |-> 0, raised |-> FALSE]
    ELSE IF reply.kind # "content"
    THEN [parsed |-> fallback_parsing(text), llm_calls |-> 1, raised |-> FALSE]
    ELSE [parsed |-> parse_llm_response(strip(reply.content)),
          llm_calls |-> 1, raised |-> FALSE]

\* the extraction used as it is, empty or not
search_ingredients_as_extracted(text, extracted) == extracted

\* the ingredient list search_recipes_with_llm_parsing searches with: the
\* extraction, or the comma split of the raw input when the extraction is empty
search_ingredients(text, extracted) ==
    IF extracted = <<>> THEN nonempty_parts(split(text, ",")) ELSE extracted

\* search_recipes_with_llm_parsing after its parse_user_input call; the except
\* branch needs a raise in the try block, and neither callee raises
search_recipes_with_llm_parsing(file, text, extracted, k, min_similarity, reply) ==
    IF search_ingredients(text, extracted) # <<>>
    THEN hybrid_recipe_search(file, search_ingredients(text, extracted), k,
                              min_similarity, reply)
    ELSE <<>>

---------------------------------------------------------------------------
(* services/recipe_service.py: CSV ingestion and the knowledge base file *)

\* a value of a csv.DictReader row: the column is not in the header (the key is
\* absent), the row is too short to reach the column (the value is None), or
\* the cell's text
Absent == [kind |-> "absent", text |-> <<>>]

Missing == [kind |-> "none", text |-> <<>>]

Cell(text) == [kind |-> "text", text |-> text]

\* str(row.get(key, default)): str(None) is the text "None"
get_str(field, default) ==
    IF field.kind = "absent" THEN default
    ELSE IF field.kind = "none" THEN <<"N", "o", "n", "e">>
    ELSE field.text

DecimalDigits == <<"0", "1", "2", "3", "4", "5", "6", "7", "8", "9">>

\* f'recipe_{row_num}', for the row numbers below ten
default_id(row_num) ==
    <<"r", "e", "c", "i", "p", "e", "_">> \o <<DecimalDigits[row_num + 1]>>

\* the body of the loop over the rows: the Recipe of the row, None for a row
\* that is skipped
process_row(row, row_num) ==
    LET recipe_id == strip(get_str(row.id, default_id(row_num)))
        title == strip(get_str(row.title, <<>>))
        ingredients == strip(get_str(row.ingredient, get_str(row.ingredients, <<>>)))
        steps == strip(get_str(row.step, get_str(row.steps, <<>>)))
    IN  IF title = <<>> \/ ingredients = <<>> THEN None
        ELSE Some([id |-> recipe_id, title |-> title, ingredients |-> ingredients,
                   steps |-> steps, embedding |-> None])

\* process_csv_recipes on a file csv.DictReader could read: the recipes of the
\* rows that are not skipped, in row order
process_csv_recipes(rows) ==
    flatten([row_num \in 1..Len(rows) |-> process_row(rows[row_num], row_num)])

\* the loop leaving out the recipes whose get_embedding call raises
generate_ingredient_embeddings_dropping(recipes, replies) ==
    flatten([i \in 1..Len(recipes) |->
                IF replies[i] = None THEN <<>>
                ELSE <<[recipes[i] EXCEPT !.embedding = replies[i]]>>])

\* generate_ingredient_embeddings: replies[i] is what get_embedding does for
\* the i-th recipe; a recipe whose call raises is appended as it is
generate_ingredient_embeddings(recipes, replies) ==
    [i \in 1..Len(recipes) |->
        IF replies[i] = None THEN recipes[i]
        ELSE [recipes[i] EXCEPT !.embedding = replies[i]]]

\* recipe_dict of save_recipes_to_kb
recipe_dict(recipe) ==
    [recipe_id |-> recipe.id,
     title |-> recipe.title,
     ingredients |-> recipe.ingredients,
     steps |-> recipe.steps,
     embedding |-> recipe.embedding,
     metadata |-> [type |-> "recipe",
                   ingredient_count |-> IF recipe.ingredients # <<>>
                                        THEN Len(split(recipe.ingredients, ","))
                                        ELSE 0]]

\* recipes_data of save_recipes_to_kb
recipes_data_of(recipes) == [i \in 1..Len(recipes) |-> recipe_dict(recipes[i])]

\* load_recipes_from_kb on a file that a save may be writing: json.load raises
\* on an unfinished JSON text and the except branch returns []
read_kb(file, open) == IF open THEN <<>> ELSE load_recipes_from_kb(file)

---------------------------------------------------------------------------
(* The corpora and requests of the model *)

MaxRecipes == 3

MaxTopK == 3

\* threshold: float = 0.6
DefaultThreshold == (6 * SimScale) \div 10

RecipeA == [recipe_id |-> "r1", title |-> "A", steps |-> "s",
            ingredients |-> <<"a", ",", " ", "b", " ", "c">>, embedding |-> Some(<<1, 0>>)]

RecipeB == [recipe_id |-> "r2", title |-> "B", steps |-> "s",
            ingredients |-> <<"2", " ", "A", ";", "c">>, embedding |-> Some(<<3, 4>>)]

RecipeC == [recipe_id |-> "r1", title |-> "C", steps |-> "s",
            ingredients |-> <<"c">>, embedding |-> None]

RecipeD == [recipe_id |-> "r3", title |-> "D", steps |-> "s",
            ingredients |-> <<"1">>, embedding |-> Some(<<-1, 0>>)]

Recipes == {RecipeA, RecipeB, RecipeC, RecipeD}

\* the knowledge base files: every list of at most MaxRecipes recipes
Corpora == UNION {[1..n -> Recipes] : n \in 0..MaxRecipes}

Queries == {<<>>,
            << <<"a">> >>,
            << <<"c">> >>,
            << <<"C", " ", "b", ",", " ", "d">>, <<"c", " ", "d">> >>}

TopKs == {0 - 1} \cup (0..MaxTopK)

Thresholds == {0 - SimScale, 0, DefaultThreshold, SimScale}

EmbedReplies == {None, Some(<<1, 0>>), Some(<<0, 1, 0>>)}

RecipeR == [recipe_id |-> "r5", title |-> "R", steps |-> "s",
            ingredients |-> <<"r", "i", "c", "e", ",", " ", "e", "g", "g">>,
            embedding |-> Some(<<1, 0>>)]

RecipeE == [recipe_id |-> "r6", title |-> "E", steps |-> "s",
            ingredients |-> <<"2", " ", "e", "g", "g">>, embedding |-> None]

\* the knowledge base files of the natural-language requests
TextCorpora == {<<>>, <<RecipeR>>, <<RecipeE>>, <<RecipeE, RecipeR>>}

\* ""
EmptyText == <<>>

\* "i have rice, egg"
IHaveText == <<"i", " ", "h", "a", "v", "e", " ", "r",
                              "i", "c", "e", ",", " ", "e", "g", "g">>

\* "Rice; egg"
ListText == <<"R", "i", "c", "e", ";", " ", "e", "g", "g">>

\* "x"
LetterText == <<"x">>

\* "i have egg. i need quick meal"
NeedText == <<"i", " ", "h", "a", "v", "e", " ", "e", "g", "g", ".", " ", "i", " ",
                              "n", "e", "e", "d", " ", "q", "u", "i", "c", "k", " ", "m", "e", "a", "l">>

UserInputs == {EmptyText, IHaveText, ListText, LetterText, NeedText}

\* "I have chicken, rice and tomatoes, need something quick for 2 servings"
ScenarioText ==
    <<"I", " ", "h", "a", "v", "e", " ", "c", "h", "i", "c", "k", "e", "n",
      ",", " ", "r", "i", "c", "e", " ", "a", "n", "d", " ", "t", "o", "m",
      "a", "t", "o", "e", "s", ",", " ", "n", "e", "e", "d", " ", "s", "o",
      "m", "e", "t", "h", "i", "n", "g", " ", "q", "u", "i", "c", "k", " ",
      "f", "o", "r", " ", "2", " ", "s", "e", "r", "v", "i", "n", "g", "s">>

\* the inputs of the extractor called alone
ExtractorInputs == UserInputs \cup {ScenarioText}

\* "Output 1: egg\nOutput 2: quick"
LabelledReply == LlmText(<<"O", "u", "t", "p", "u", "t", " ", "1", ":", " ", "e", "g", "g", "\n",
                              "O", "u", "t", "p", "u", "t", " ", "2", ":", " ", "q", "u", "i", "c", "k">>)

\* "sorry"
UnlabelledReply == LlmText(<<"s", "o", "r", "r", "y">>)

\* "Output 1:\nOutput 2: quick"
NoIngredientReply == LlmText(<<"O", "u", "t", "p", "u", "t", " ", "1", ":", "\n", "O", "u",
                              "t", "p", "u", "t", " ", "2", ":", " ", "q", "u", "i", "c", "k">>)

LlmReplies == {LlmRaises, LlmNoContent, LabelledReply, UnlabelledReply, NoIngredientReply}

\* the replies of the n LLM calls a request with a client makes; none without
LlmReplySeqs(has_client, n) == IF has_client THEN [1..n -> LlmReplies] ELSE {<<>>}

\* the reply to the i-th LLM call
reply_at(replies, i) == IF i <= Len(replies) THEN replies[i] ELSE LlmRaises

---------------------------------------------------------------------------
(* The state before any request *)

\* no ingestion has run: the file is closed and complete
NoIngestion ==
    /\ kb_open = FALSE
    /\ uploads = <<>>
    /\ file_pos = 0
    /\ pending = <<>>
    /\ previous = <<>>
    /\ processed_files = <<>>
    /\ total_recipes = 0
    /\ observed = None

\* no service function has been called by itself
NoCall == [function |-> "none", arguments |-> <<>>, result |-> <<>>, raised |-> FALSE]

---------------------------------------------------------------------------
(* app.py: the /search-recipes request *)

Init ==
    /\ kb \in Corpora
    /\ pc = "idle"
    /\ user_ingredients = <<>>
    /\ user_input = <<>>
    /\ top_k = 0
    /\ threshold = 0
    /\ embed_reply = None
    /\ client = FALSE
    /\ llm_replies = <<>>
    /\ semantic_results = <<>>
    /\ recommendations = <<>>
    /\ parsed_ingredients = <<>>
    /\ preferences = <<>>
    /\ embed_calls = 0
    /\ llm_calls = 0
    /\ raised = FALSE
    /\ repeat_results = <<>>
    /\ NoIngestion
    /\ call = NoCall

\* search_recipes_by_ingredients: one hybrid_recipe_search over the knowledge base
SearchRecipesByIngredients ==
    /\ pc = "idle"
    /\ \E q \in Queries, k \in TopKs, t \in Thresholds, reply \in EmbedReplies :
           /\ user_ingredients' = q
           /\ top_k' = k
           /\ threshold' = t
           /\ embed_reply' = reply
           /\ semantic_results' = find_recipes_by_ingredients(kb, q, k, t, reply)
           /\ recommendations' = hybrid_merge(semantic_results', kb, q, k)
           /\ embed_calls' = IF calls_get_embedding(kb) THEN 1 ELSE 0
           /\ raised' = FALSE
           /\ pc' = "searched"
           /\ UNCHANGED <<kb, user_input, client, llm_replies, parsed_ingredients,
                          preferences, llm_calls, repeat_results, ingest_vars, call>>

Next == SearchRecipesByIngredients

Spec == Init /\ [][Next]_vars

---------------------------------------------------------------------------
(* app.py: the /search-recipes request sent twice *)

\* the knowledge base files of the repeated request
RepeatCorpora == UNION {[1..n -> Recipes] : n \in 0..(MaxRecipes - 1)}

InitRepeat ==
    /\ kb \in RepeatCorpora
    /\ pc = "idle"
    /\ user_ingredients = <<>>
    /\ user_input = <<>>
    /\ top_k = 0
    /\ threshold = 0
    /\ embed_reply = None
    /\ client = FALSE
    /\ llm_replies = <<>>
    /\ semantic_results = <<>>
    /\ recommendations = <<>>
    /\ parsed_ingredients = <<>>
    /\ preferences = <<>>
    /\ embed_calls = 0
    /\ llm_calls = 0
    /\ raised = FALSE
    /\ repeat_results = <<>>
    /\ NoIngestion
    /\ call = NoCall

\* search_recipes_by_ingredients again: the same request, the file unchanged,
\* the embedding provider answering as before
RepeatSearch ==
    /\ pc = "searched"
    /\ repeat_results' = hybrid_recipe_search_again(recommendations, kb, user_ingredients,
                                                    top_k, threshold, embed_reply)
    /\ pc' = "repeated"
    /\ UNCHANGED <<kb, user_ingredients, user_input, top_k, threshold, embed_reply, client,
                   llm_replies, semantic_results, recommendations, parsed_ingredients,
                   preferences, embed_calls, llm_calls, raised, ingest_vars, call>>

NextRepeat ==
    \/ SearchRecipesByIngredients
    \/ RepeatSearch

SpecRepeat == InitRepeat /\ [][NextRepeat]_vars

---------------------------------------------------------------------------
(* app.py: the /search-recipes-llm request, and the extractor called alone *)

InitText ==
    /\ kb \in TextCorpora
    /\ pc = "idle"
    /\ user_ingredients = <<>>
    /\ user_input = <<>>
    /\ top_k = 0
    /\ threshold = 0
    /\ embed_reply = None
    /\ client = FALSE
    /\ llm_replies = <<>>
    /\ semantic_results = <<>>
    /\ recommendations = <<>>
    /\ parsed_ingredients = <<>>
    /\ preferences = <<>>
    /\ embed_calls = 0
    /\ llm_calls = 0
    /\ raised = FALSE
    /\ repeat_results = <<>>
    /\ NoIngestion
    /\ call = NoCall

\* llm_parsing_service.parse_user_input(user_input), called by itself
ParseUserInput ==
    /\ pc = "idle"
    /\ \E text \in ExtractorInputs, has_client \in BOOLEAN :
         \E replies \in LlmReplySeqs(has_client, 1) :
           \E result \in {parse_user_input(text, has_client, reply_at(replies, 1))} :
               /\ user_input' = text
               /\ client' = has_client
               /\ llm_replies' = replies
               /\ parsed_ingredients' = result.parsed.ingredients
               /\ preferences' = result.parsed.preferences
               /\ llm_calls' = result.llm_calls
               /\ raised' = result.raised
               /\ pc' = "parsed"
               /\ UNCHANGED <<kb, user_ingredients, top_k, threshold, embed_reply,
                              semantic_results, recommendations, embed_calls,
                              repeat_results, ingest_vars, call>>

\* search_recipes_with_llm: parse_user_input for the response's
\* parsed_ingredients, then search_recipes_with_llm_parsing, which calls
\* parse_user_input again and searches with what that second call extracted
SearchRecipesWithLlm ==
    /\ pc = "idle"
    /\ \E text \in UserInputs, has_client \in BOOLEAN, k \in TopKs, t \in Thresholds,
          reply \in EmbedReplies :
         \E replies \in LlmReplySeqs(has_client, 2) :
           \E first \in {parse_user_input(text, has_client, reply_at(replies, 1))},
              second \in {parse_user_input(text, has_client, reply_at(replies, 2))} :
             \E searched \in {search_ingredients(text, second.parsed.ingredients)} :
               /\ user_input' = text
               /\ client' = has_client
               /\ llm_replies' = replies
               /\ top_k' = k
               /\ threshold' = t
               /\ embed_reply' = reply
               /\ parsed_ingredients' = first.parsed.ingredients
               /\ preferences' = first.parsed.preferences
               /\ llm_calls' = first.llm_calls + second.llm_calls
               /\ raised' = (first.raised \/ second.raised)
               /\ user_ingredients' = searched
               /\ semantic_results' = IF searched # <<>>
                                      THEN find_recipes_by_ingredients(kb, searched, k, t, reply)
                                      ELSE <<>>
               /\ recommendations' = search_recipes_with_llm_parsing(
                                         kb, text, second.parsed.ingredients, k, t, reply)
               /\ embed_calls' = IF searched # <<>> /\ calls_get_embedding(kb) THEN 1 ELSE 0
               /\ pc' = "answered"
               /\ UNCHANGED <<kb, repeat_results, ingest_vars, call>>

NextText ==
    \/ ParseUserInput
    \/ SearchRecipesWithLlm
    \/ SearchRecipesByIngredients

SpecText == InitText /\ [][NextText]_vars

---------------------------------------------------------------------------
(* app.py: the /ingest-recipes request, beside a concurrent reader of the file *)

MaxFiles == 2

\* a row of a file with the header id,title,ingredients,steps
Row(id, title, ingredients, steps) ==
    [id |-> id, title |-> title, ingredient |-> Absent, ingredients |-> ingredients,
     step |-> Absent, steps |-> steps]

\* 7,R,"rice, egg",s
RowGood == Row(Cell(<<"7">>), Cell(<<"R">>), Cell(<<"r", "i", "c", "e", ",", " ", "e", "g", "g">>), Cell(<<"s">>))

\* 8,"  ",egg,s
RowBlankTitle == Row(Cell(<<"8">>), Cell(<<" ", " ">>), Cell(<<"e", "g", "g">>), Cell(<<"s">>))

\* 9,T," ",s
RowBlankIngredients == Row(Cell(<<"9">>), Cell(<<"T">>), Cell(<<" ">>), Cell(<<"s">>))

\* 8,E : a row that ends after its title
RowShort == Row(Cell(<<"8">>), Cell(<<"E">>), Missing, Missing)

\* E,2 egg,s in a file with the header title,ingredient,step
RowSingular ==
    [id |-> Absent, title |-> Cell(<<"E">>), ingredient |-> Cell(<<"2", " ", "e", "g", "g">>),
     ingredients |-> Absent, step |-> Cell(<<"s">>), steps |-> Absent]

\* an uploaded file: whether its name ends with .csv, whether
\* process_csv_recipes can read it through (it raises otherwise), and the rows
\* csv.DictReader yields
Upload(is_csv, readable, rows) == [is_csv |-> is_csv, readable |-> readable, rows |-> rows]

FileGood == Upload(TRUE, TRUE, <<RowBlankTitle, RowGood>>)

FileShort == Upload(TRUE, TRUE, <<RowShort>>)

FileSingular == Upload(TRUE, TRUE, <<RowSingular>>)

FileBlank == Upload(TRUE, TRUE, <<RowBlankIngredients>>)

FileUnreadable == Upload(TRUE, FALSE, <<RowGood>>)

FileNotCsv == Upload(FALSE, TRUE, <<RowGood>>)

Files == {FileGood, FileShort, FileSingular, FileBlank, FileUnreadable, FileNotCsv}

\* the requests: every list of one to MaxFiles files
UploadLists == UNION {[1..n -> Files] : n \in 1..MaxFiles}

\* what get_embedding does for a recipe of an ingested file
IngestEmbedReplies == {None, Some(<<1, 0>>)}

\* the file before the request: absent or empty, or an earlier ingestion's
StoredCorpora ==
    {<<>>,
     recipes_data_of(generate_ingredient_embeddings(process_csv_recipes(<<RowGood>>),
                                                    <<Some(<<1, 0>>)>>))}

\* the condition of the handler's HTTP 400
ingestion_failed_any(processed, files) == Len(processed) < Len(files)

ingestion_failed(processed, files) == processed = <<>>

InitIngest ==
    /\ kb \in StoredCorpora
    /\ pc = "idle"
    /\ user_ingredients = <<>>
    /\ user_input = <<>>
    /\ top_k = 0
    /\ threshold = 0
    /\ embed_reply = None
    /\ client = FALSE
    /\ llm_replies = <<>>
    /\ semantic_results = <<>>
    /\ recommendations = <<>>
    /\ parsed_ingredients = <<>>
    /\ preferences = <<>>
    /\ embed_calls = 0
    /\ llm_calls = 0
    /\ raised = FALSE
    /\ repeat_results = <<>>
    /\ NoIngestion
    /\ call = NoCall

\* ingest_recipes_csv is called with a list of files
IngestRecipesCsv ==
    /\ pc = "idle"
    /\ \E files \in UploadLists :
           /\ uploads' = files
           /\ file_pos' = 1
           /\ pc' = "loop"
           /\ UNCHANGED <<kb, search_vars, call, kb_open, pending, previous, processed_files,
                          total_recipes, observed>>

\* a turn of the loop that ends in continue: the name is not *.csv, or
\* process_csv_recipes raises
SkipFile ==
    /\ pc = "loop"
    /\ file_pos <= Len(uploads)
    /\ ~uploads[file_pos].is_csv \/ ~uploads[file_pos].readable
    /\ file_pos' = file_pos + 1
    /\ UNCHANGED <<kb, pc, search_vars, call, kb_open, uploads, pending, previous,
                   processed_files, total_recipes, observed>>

\* a turn of the loop up to the open(kb_file, 'w') of save_recipes_to_kb,
\* which truncates the file
OpenKbForWriting ==
    /\ pc = "loop"
    /\ file_pos <= Len(uploads)
    /\ uploads[file_pos].is_csv /\ uploads[file_pos].readable
    /\ \E recipes \in {process_csv_recipes(uploads[file_pos].rows)} :
         \E replies \in [1..Len(recipes) -> IngestEmbedReplies] :
           /\ pending' = recipes_data_of(generate_ingredient_embeddings(recipes, replies))
           /\ previous' = read_kb(kb, kb_open)
           /\ kb' = <<>>
           /\ kb_open' = TRUE
           /\ pc' = "saving"
           /\ UNCHANGED <<search_vars, call, uploads, file_pos, processed_files, total_recipes,
                          observed>>

\* json.dump has written some of the records and the buffer reaches the file
FlushKb ==
    /\ pc = "saving"
    /\ \E n \in (Len(kb) + 1)..Len(pending) :
           kb' = SubSeq(pending, 1, n)
    /\ UNCHANGED <<pc, search_vars, call, ingest_vars>>

\* the rest of the turn: after the write (finished = TRUE: the file is
\* complete and closed; FALSE: the write raised, save_recipes_to_kb returned
\* False and the file stays as it is) the handler counts the file as processed
AfterSave(finished) ==
    /\ pc = "saving"
    /\ kb' = IF finished THEN pending ELSE kb
    /\ kb_open' = ~finished
    /\ processed_files' = Append(processed_files, file_pos)
    /\ total_recipes' = total_recipes + Len(pending)
    /\ file_pos' = file_pos + 1
    /\ pc' = "loop"
    /\ UNCHANGED <<search_vars, call, uploads, pending, previous, observed>>

CloseKb == AfterSave(TRUE)

SaveRaises == AfterSave(FALSE)

\* after the loop: HTTP 400 if no file was processed, else the success response
Respond ==
    /\ pc = "loop"
    /\ file_pos > Len(uploads)
    /\ pc' = IF ingestion_failed(processed_files, uploads) THEN "failed" ELSE "ingested"
    /\ UNCHANGED <<kb, search_vars, call, ingest_vars>>

\* load_recipes_from_kb of a search running beside the ingestion
LoadRecipesFromKb ==
    /\ pc \in {"loop", "saving"}
    /\ observed' = Some(read_kb(kb, kb_open))
    /\ UNCHANGED <<kb, pc, search_vars, call, kb_open, uploads, file_pos, pending, previous,
                   processed_files, total_recipes>>

NextIngest ==
    \/ IngestRecipesCsv
    \/ SkipFile
    \/ OpenKbForWriting
    \/ FlushKb
    \/ CloseKb
    \/ SaveRaises
    \/ Respond
    \/ LoadRecipesFromKb

SpecIngest == InitIngest /\ [][NextIngest]_vars

---------------------------------------------------------------------------
(* services/recipe_search_service.py: hybrid_recipe_search beside an ingestion *)

\* the knowledge base files of the search that runs beside an ingestion
SnapshotCorpora == {<<>>, <<RecipeA>>, <<RecipeC>>, <<RecipeB, RecipeC>>}

InitSnapshot ==
    /\ kb \in SnapshotCorpora
    /\ pc = "idle"
    /\ user_ingredients = <<>>
    /\ user_input = <<>>
    /\ top_k = 0
    /\ threshold = 0
    /\ embed_reply = None
    /\ client = FALSE
    /\ llm_replies = <<>>
    /\ semantic_results = <<>>
    /\ recommendations = <<>>
    /\ parsed_ingredients = <<>>
    /\ preferences = <<>>
    /\ embed_calls = 0
    /\ llm_calls = 0
    /\ raised = FALSE
    /\ repeat_results = <<>>
    /\ NoIngestion
    /\ call = NoCall

\* hybrid_recipe_search up to the return of find_recipes_by_ingredients, which
\* loads the file; observed keeps what that load returned
FindRecipesByIngredients ==
    /\ pc = "idle"
    /\ \E q \in Queries, k \in TopKs, t \in Thresholds, reply \in EmbedReplies :
           /\ user_ingredients' = q
           /\ top_k' = k
           /\ threshold' = t
           /\ embed_reply' = reply
           /\ semantic_results' = find_recipes_by_ingredients(kb, q, k, t, reply)
           /\ embed_calls' = IF calls_get_embedding(kb) THEN 1 ELSE 0
    /\ observed' = Some(load_recipes_from_kb(kb))
    /\ pc' = "semantic"
    /\ UNCHANGED <<kb, user_input, client, llm_replies, recommendations, parsed_ingredients,
                   preferences, llm_calls, raised, repeat_results, kb_open, uploads, file_pos,
                   pending, previous, processed_files, total_recipes, call>>

\* save_recipes_to_kb of an ingestion in another worker, from its open to
\* its close: the file holds the new corpus
SaveRecipesToKb ==
    /\ pc = "semantic"
    /\ \E recipes_data \in SnapshotCorpora :
           /\ previous' = kb
           /\ kb' = recipes_data
    /\ pc' = "replaced"
    /\ UNCHANGED <<search_vars, kb_open, uploads, file_pos, pending, processed_files,
                   total_recipes, observed, call>>

\* the rest of hybrid_recipe_search: find_recipes_by_keywords, which loads the
\* file again, the merge, the sort and the slice
SupplementAndRank ==
    /\ pc \in {"semantic", "replaced"}
    /\ recommendations' = hybrid_merge(semantic_results, kb, user_ingredients, top_k)
    /\ pc' = "searched"
    /\ UNCHANGED <<kb, user_ingredients, user_input, top_k, threshold, embed_reply, client,
                   llm_replies, semantic_results, parsed_ingredients, preferences,
                   embed_calls, llm_calls, raised, repeat_results, ingest_vars, call>>

NextSnapshot ==
    \/ FindRecipesByIngredients
    \/ SaveRecipesToKb
    \/ SupplementAndRank

SpecSnapshot == InitSnapshot /\ [][NextSnapshot]_vars

---------------------------------------------------------------------------
(* The service functions called by themselves *)

MaxTextLen == 4

MaxDim == 2

\* the characters of the ingredient texts: a letter of each case, a blank, a
\* digit and the four separators
TextChars == {"a", "B", " ", "1", ",", ";", "\n", "|"}

\* ingredients_text: every text of at most MaxTextLen characters
Texts == UNION {[1..n -> TextChars] : n \in 0..MaxTextLen}

\* the components of the embedding vectors
Components == {0 - 5, 0 - 4, 0 - 3, 0 - 1, 0, 1, 3, 4, 5}

\* vec_a, vec_b: the vectors of at most MaxDim components whose norm is 0, 1 or 5
Vectors ==
    {v \in UNION {[1..n -> Components] : n \in 0..MaxDim} : Dot(v, v) \in {0, 1, 5 * 5}}

\* "Egg; rice, Egg, x"
RepeatListText == <<"E", "g", "g", ";", " ", "r", "i", "c", "e", ",", " ", "E", "g", "g", ",", " ", "x">>

\* "i have egg, rice, egg. i want rice, rice"
RepeatHaveText ==
    <<"i", " ", "h", "a", "v", "e", " ", "e", "g", "g", ",", " ", "r", "i", "c", "e", ",", " ", "e", "g", "g", ".", " ", "i", " ", "w", "a", "n", "t", " ", "r", "i", "c", "e", ",", " ", "r", "i", "c", "e">>

\* user_input of _fallback_parsing
FallbackInputs == ExtractorInputs \cup {RepeatListText, RepeatHaveText}

\* the Recipe objects process_csv_recipes builds
CsvRecipes == Range(process_csv_recipes(<<RowGood, RowShort, RowSingular>>))

\* recipes: every list of at most MaxRecipes of them
RecipeLists == UNION {[1..n -> CsvRecipes] : n \in 0..MaxRecipes}

Returned(function, arguments, result) ==
    [function |-> function, arguments |-> arguments, result |-> result, raised |-> FALSE]

InitCalls ==
    /\ kb = <<>>
    /\ pc = "idle"
    /\ user_ingredients = <<>>
    /\ user_input = <<>>
    /\ top_k = 0
    /\ threshold = 0
    /\ embed_reply = None
    /\ client = FALSE
    /\ llm_replies = <<>>
    /\ semantic_results = <<>>
    /\ recommendations = <<>>
    /\ parsed_ingredients = <<>>
    /\ preferences = <<>>
    /\ embed_calls = 0
    /\ llm_calls = 0
    /\ raised = FALSE
    /\ repeat_results = <<>>
    /\ NoIngestion
    /\ call = NoCall

\* normalize_ingredients(ingredients_text)
NormalizeIngredients ==
    /\ pc = "idle"
    /\ \E ingredients_text \in Texts :
           call' = Returned("normalize_ingredients", <<ingredients_text>>,
                            normalize_ingredients(ingredients_text))
    /\ pc' = "returned"
    /\ UNCHANGED <<kb, search_vars, ingest_vars>>

\* cosine_similarity(vec_a, vec_b)
CosineSimilarity ==
    /\ pc = "idle"
    /\ \E vec_a \in Vectors, vec_b \in Vectors :
           call' = Returned("cosine_similarity", <<vec_a, vec_b>>,
                            cosine_similarity(vec_a, vec_b))
    /\ pc' = "returned"
    /\ UNCHANGED <<kb, search_vars, ingest_vars>>

\* generate_ingredient_embeddings(recipes), get_embedding answering with replies
GenerateIngredientEmbeddings ==
    /\ pc = "idle"
    /\ \E recipes \in RecipeLists :
         \E replies \in [1..Len(recipes) -> IngestEmbedReplies] :
           call' = Returned("generate_ingredient_embeddings", <<recipes, replies>>,
                            generate_ingredient_embeddings(recipes, replies))
    /\ pc' = "returned"
    /\ UNCHANGED <<kb, search_vars, ingest_vars>>

\* llm_parsing_service._fallback_parsing(user_input)
FallbackParsing ==
    /\ pc = "idle"
    /\ \E text \in FallbackInputs :
           call' = Returned("_fallback_parsing", <<text>>, fallback_parsing(text))
    /\ pc' = "returned"
    /\ UNCHANGED <<kb, search_vars, ingest_vars>>

NextCalls ==
    \/ NormalizeIngredients
    \/ CosineSimilarity
    \/ GenerateIngredientEmbeddings
    \/ FallbackParsing

SpecCalls == InitCalls /\ [][NextCalls]_vars

---------------------------------------------------------------------------
(* Properties of the /search-recipes request *)

Ids(results) == {results[i].recipe_id : i \in 1..Len(results)}

\* the request took the semantic path: the corpus has embeddings and the one
\* get_embedding call returned a vector
SemanticPath == calls_get_embedding(kb) /\ embed_reply # None

\* the match_score the semantic path gives to a corpus recipe
semantic_score_of(recipe_data) ==
    LET recipe_ingredients == normalize_ingredients(recipe_data.ingredients)
        user_ingredients_normalized == normalize_user_ingredients(user_ingredients)
    IN  combined_score(cosine_similarity(embed_reply[1], recipe_data.embedding[1]),
                       match_ratio(Len(matched_of(recipe_ingredients,
                                                  user_ingredients_normalized)),
                                   recipe_ingredients))

\* whether the keyword retriever would return the recipe: some lexical match
has_lexical_match(recipe_data) ==
    keyword_candidate(recipe_data, normalize_user_ingredients(user_ingredients)) # <<>>

\* C1: the list returned by hybrid_recipe_search holds each recipe_id at most
\* once, and a recipe the semantic retriever returned that the keyword
\* retriever would return too carries the semantic-path score
\* 0.6 * sim + 0.4 * ratio, never the keyword-path score.
C1_DedupKeepsSemanticScore ==
    pc = "searched" =>
        /\ \A i, j \in 1..Len(recommendations) :
               i # j => recommendations[i].recipe_id # recommendations[j].recipe_id
        /\ SemanticPath =>
               \A i \in 1..Len(semantic_results), j \in 1..Len(recommendations) :
                   (/\ recommendations[j].recipe_id = semantic_results[i].recipe_id
                    /\ \E n \in 1..Len(kb) :
                           /\ kb[n].recipe_id = semantic_results[i].recipe_id
                           /\ has_lexical_match(kb[n]))
                   => \E n \in 1..Len(kb) :
                          /\ kb[n].recipe_id = recommendations[j].recipe_id
                          /\ kb[n].embedding # None
                          /\ kb[n].embedding[1] # <<>>
                          /\ recommendations[j].match_score = semantic_score_of(kb[n])

\* the semantic path is unavailable: no recipe carries a non-empty embedding,
\* or the one embedding-provider call failed
SemanticUnavailable ==
    \/ ~has_embeddings(kb)
    \/ calls_get_embedding(kb) /\ embed_reply = None

\* C2: when the semantic path is unavailable, hybrid_recipe_search raises
\* nothing and returns exactly the keyword retriever's result for the same
\* query and top_k.
C2_FallbackIsKeywordResult ==
    (pc = "searched" /\ SemanticUnavailable) =>
        /\ ~raised
        /\ recommendations = find_recipes_by_keywords(kb, user_ingredients, top_k)

\* C3: for every top_k >= 0 the list returned by hybrid_recipe_search is sorted
\* in non-increasing order of match_score and has at most top_k elements.
C3_SortedAndTruncated ==
    (pc = "searched" /\ top_k >= 0) =>
        /\ Len(recommendations) <= top_k
        /\ \A i, j \in 1..Len(recommendations) :
               i < j => recommendations[i].match_score >= recommendations[j].match_score

\* a keyword supplement ranked above a semantic-path recommendation
C3_Witness ==
    /\ pc = "searched"
    /\ SemanticPath
    /\ top_k >= 2
    /\ Len(semantic_results) = 1
    /\ Len(recommendations) = 2
    /\ recommendations[2] = semantic_results[1]
    /\ recommendations[1].match_score > recommendations[2].match_score

\* C4: for every top_k <= 0 the semantic retriever, the keyword retriever and
\* the hybrid ranker each return the empty list.
C4_NonPositiveTopKIsEmpty ==
    (pc = "searched" /\ top_k <= 0) =>
        /\ semantic_results = <<>>
        /\ find_recipes_by_keywords(kb, user_ingredients, top_k) = <<>>
        /\ recommendations = <<>>

\* C5: hybrid_recipe_search returns fewer than top_k recommendations only when
\* every corpus recipe with at least one lexical match is already in the
\* returned list (by recipe_id).
C5_SupplementedToTopK ==
    (pc = "searched" /\ Len(recommendations) < top_k) =>
        \A n \in 1..Len(kb) :
            has_lexical_match(kb[n]) => kb[n].recipe_id \in Ids(recommendations)

\* C6: the match_score of every recommendation returned by the semantic
\* retriever, the keyword retriever or the hybrid ranker lies in [0, 1].
C6_ScoreInUnitInterval ==
    pc = "searched" =>
        \A r \in Range(recommendations) \cup Range(semantic_results)
                 \cup Range(find_recipes_by_keywords(kb, user_ingredients, top_k)) :
            0 <= r.match_score /\ r.match_score <= ScoreDen

\* matched and missing partition the recipe's normalized ingredient list
is_partition(r) ==
    LET recipe_ingredients == normalize_ingredients(r.ingredients)
        Count(lst, x) == Cardinality({i \in 1..Len(lst) : lst[i] = x})
    IN  /\ Len(r.matched_ingredients) + Len(r.missing_ingredients) = Len(recipe_ingredients)
        /\ Range(r.matched_ingredients) \cap Range(r.missing_ingredients) = {}
        /\ \A x \in Range(recipe_ingredients) :
               Count(r.matched_ingredients, x) + Count(r.missing_ingredients, x)
                   = Count(recipe_ingredients, x)

\* the lexical part of the score is 0: the score is that of a corpus recipe
\* with the same ingredients text at match ratio 0
has_zero_ratio(r) ==
    /\ match_ratio(Len(r.matched_ingredients), normalize_ingredients(r.ingredients)) = 0
    /\ \E n \in 1..Len(kb) :
           /\ kb[n].ingredients = r.ingredients
           /\ kb[n].embedding # None
           /\ kb[n].embedding[1] # <<>>
           /\ r.match_score =
                  combined_score(cosine_similarity(embed_reply[1], kb[n].embedding[1]), 0)

\* C7: in every recommendation, matched_ingredients and missing_ingredients
\* partition the recipe's normalized ingredient list (the lengths sum to the
\* number of tokens, no token is in both), and the match ratio is 0 when the
\* recipe has no normalized token.
C7_MatchedMissingPartition ==
    pc = "searched" =>
        \A r \in Range(recommendations) \cup Range(semantic_results) :
            /\ is_partition(r)
            /\ normalize_ingredients(r.ingredients) = <<>> => has_zero_ratio(r)

\* a recommendation with matched and missing tokens beside one without tokens
C7_Witness ==
    /\ pc = "searched"
    /\ \E r \in Range(recommendations) :
           r.matched_ingredients # <<>> /\ r.missing_ingredients # <<>>
    /\ \E r \in Range(recommendations) : normalize_ingredients(r.ingredients) = <<>>


---------------------------------------------------------------------------
(* Properties of the retrievers *)

\* the recommendation r was built from the corpus recipe at position n
built_from(r, n) ==
    /\ r.recipe_id = kb[n].recipe_id
    /\ r.title = kb[n].title
    /\ r.ingredients = kb[n].ingredients

\* the cosine of the query embedding and the recipe's embedding
sim_of(n) == cosine_similarity(embed_reply[1], kb[n].embedding[1])

\* the corpus positions whose recipe has a non-empty embedding with a cosine
\* of at least the threshold
Eligible ==
    {n \in 1..Len(kb) : /\ kb[n].embedding # None
                        /\ kb[n].embedding[1] # <<>>
                        /\ sim_of(n) >= threshold}

\* C17: with embeddings in the corpus and a query embedding, a recipe is a
\* semantic candidate iff it has a non-empty embedding whose cosine with the
\* query embedding is >= threshold; when the threshold excludes every recipe
\* the semantic retriever returns the empty list, not an error.
C17_CandidateIffAtLeastThreshold ==
    (pc = "searched" /\ SemanticPath) =>
        /\ ~raised
        /\ \A i \in 1..Len(semantic_results) :
               \E n \in Eligible : built_from(semantic_results[i], n)
        /\ top_k >= Cardinality(Eligible) => Len(semantic_results) = Cardinality(Eligible)
        /\ Eligible = {} => semantic_results = <<>>

\* a recipe exactly at the threshold is returned, one below it is left out
C17_Witness ==
    /\ pc = "searched"
    /\ SemanticPath
    /\ \E n \in Eligible : sim_of(n) = threshold
    /\ \E n \in 1..Len(kb) : kb[n].embedding # None /\ n \notin Eligible
    /\ top_k >= Cardinality(Eligible)
    /\ Len(semantic_results) = Cardinality(Eligible)

\* C18: every recommendation of the semantic retriever has
\* match_score = 0.6 * sim + 0.4 * ratio with ratio = |matched| / |recipe
\* tokens| (0 without tokens), the same weights in every call.
C18_SemanticScoreFormula ==
    (pc = "searched" /\ SemanticPath) =>
        \A i \in 1..Len(semantic_results) :
            LET r == semantic_results[i]
                tokens == Len(normalize_ingredients(r.ingredients))
            IN  \E n \in Eligible :
                    /\ built_from(r, n)
                    /\ IF tokens = 0
                       THEN r.match_score = SemanticWeight * RatioScale * sim_of(n)
                       ELSE r.match_score * tokens =
                                SemanticWeight * RatioScale * sim_of(n) * tokens
                                + LexicalWeight * SimScale * RatioScale
                                      * Len(r.matched_ingredients)

\* a semantic recommendation whose ratio lies strictly between 0 and 1 and
\* differs from its cosine
C18_Witness ==
    /\ pc = "searched"
    /\ SemanticPath
    /\ \E i \in 1..Len(semantic_results) :
           /\ semantic_results[i].matched_ingredients # <<>>
           /\ semantic_results[i].missing_ingredients # <<>>
           /\ semantic_results[i].match_score > 0

\* the query token q matches the recipe token r: one holds the other, or they
\* share a whitespace-delimited word
token_matches(q, r) ==
    \/ \E i \in 0..(Len(r) - Len(q)) : SubSeq(r, i + 1, i + Len(q)) = q
    \/ \E i \in 0..(Len(q) - Len(r)) : SubSeq(q, i + 1, i + Len(r)) = r
    \/ Range(split_words(q)) \cap Range(split_words(r)) # {}

\* the query tokens that match the recipe token r
matching_query_tokens(r) ==
    LET query == normalize_user_ingredients(user_ingredients)
    IN  {j \in 1..Len(query) : token_matches(query[j], r)}

occurrences(lst, x) == Cardinality({i \in 1..Len(lst) : lst[i] = x})

\* C19: a normalized recipe token is matched iff some normalized query token
\* holds it, is held by it or shares a word with it, else it is missing, and
\* it is recorded once however many query tokens match.
C19_MatchingRule ==
    pc = "searched" =>
        \A r \in Range(recommendations) \cup Range(semantic_results) :
            LET tokens == normalize_ingredients(r.ingredients)
            IN  \A x \in Range(tokens) :
                    IF matching_query_tokens(x) # {}
                    THEN /\ occurrences(r.matched_ingredients, x) = occurrences(tokens, x)
                         /\ occurrences(r.missing_ingredients, x) = 0
                    ELSE /\ occurrences(r.matched_ingredients, x) = 0
                         /\ occurrences(r.missing_ingredients, x) = occurrences(tokens, x)

\* a recipe token matched by two query tokens through a shared word only,
\* recorded once, beside a missing token
C19_Witness ==
    /\ pc = "searched"
    /\ \E r \in Range(recommendations) :
           /\ r.missing_ingredients # <<>>
           /\ \E x \in Range(r.matched_ingredients) :
                  /\ Cardinality(matching_query_tokens(x)) >= 2
                  /\ occurrences(r.matched_ingredients, x) = 1
                  /\ \A j \in matching_query_tokens(x) :
                         LET q == normalize_user_ingredients(user_ingredients)[j]
                         IN  ~contains(q, x) /\ ~contains(x, q)

\* the corpus positions whose recipe has a token matched by the query
Matching ==
    {n \in 1..Len(kb) :
        \E x \in Range(normalize_ingredients(kb[n].ingredients)) :
            matching_query_tokens(x) # {}}

\* C20: the keyword retriever returns a recipe iff one of its tokens is matched
\* by the query, with match_score = matches / |recipe tokens| > 0, sorted by
\* descending match_score and cut to the first top_k; an empty query list
\* gives the empty result.
C20_KeywordRetriever ==
    pc = "searched" =>
        LET result == find_recipes_by_keywords(kb, user_ingredients, top_k)
            first == IF top_k > 0 THEN top_k ELSE 0
        IN  /\ \A i \in 1..Len(result) :
                   /\ \E n \in Matching : built_from(result[i], n)
                   /\ result[i].match_score > 0
                   /\ result[i].match_score * Len(normalize_ingredients(result[i].ingredients))
                          = ScoreDen * Len(result[i].matched_ingredients)
            /\ \A i, j \in 1..Len(result) :
                   i < j => result[i].match_score >= result[j].match_score
            /\ Len(result) = IF Cardinality(Matching) < first
                             THEN Cardinality(Matching) ELSE first
            /\ user_ingredients = <<>> => result = <<>>

---------------------------------------------------------------------------
(* Properties of the extractor and of the /search-recipes-llm request *)

EmptyLists == [ingredients |-> <<>>, preferences |-> <<>>]

\* what the extractor returned
Extracted == [ingredients |-> parsed_ingredients, preferences |-> preferences]

\* C8: parse_user_input never raises to its caller; without a client it makes
\* no LLM call and returns the regex-fallback result, and when the LLM call
\* raises it returns the regex-fallback result for the same input.
C8_NeverRaisesAndFallsBack ==
    pc = "parsed" =>
        /\ ~raised
        /\ ~client => llm_calls = 0 /\ Extracted = fallback_parsing(user_input)
        /\ (client /\ llm_replies[1].kind = "raise") =>
               Extracted = fallback_parsing(user_input)

\* the LLM call raised and the extractor returned the fallback's ingredients
C8_Witness ==
    /\ pc = "parsed"
    /\ client
    /\ llm_replies[1].kind = "raise"
    /\ ~raised
    /\ parsed_ingredients # <<>>
    /\ Extracted = fallback_parsing(user_input)

\* C9: parse_user_input returns ([], []) only if the raw input is empty or
\* yields no token under every fallback rule, also when the LLM call succeeds
\* with a response that has neither labelled line.
C9_EmptyOnlyIfUnparseable ==
    (pc = "parsed" /\ Extracted = EmptyLists) =>
        fallback_parsing(user_input) = EmptyLists

\* C10: a search request makes at most one embedding-provider call, and a
\* natural-language search request at most one LLM call (no retry).
C10_AtMostOneCallEach ==
    pc \in {"searched", "answered"} => embed_calls <= 1 /\ llm_calls <= 1


\* the position of the first token equal to text, 0 if there is none
position_of(tokens, text) ==
    IF \E i \in 1..Len(tokens) : tokens[i] = text
    THEN Min({i \in 1..Len(tokens) : tokens[i] = text})
    ELSE 0

Chicken == <<"c", "h", "i", "c", "k", "e", "n">>

Rice == <<"r", "i", "c", "e">>

Tomatoes == <<"t", "o", "m", "a", "t", "o", "e", "s">>

\* C15: without an LLM client the extractor given "I have chicken, rice and
\* tomatoes, need something quick for 2 servings" returns ingredients holding
\* the tokens chicken, rice and tomatoes in that order without duplicates, and
\* non-empty preferences with a token derived from "quick" or "2 servings".
C15_ScenarioTokens ==
    (pc = "parsed" /\ ~client /\ user_input = ScenarioText) =>
        /\ llm_calls = 0
        /\ 0 < position_of(parsed_ingredients, Chicken)
        /\ position_of(parsed_ingredients, Chicken) < position_of(parsed_ingredients, Rice)
        /\ position_of(parsed_ingredients, Rice) < position_of(parsed_ingredients, Tomatoes)
        /\ \A i, j \in 1..Len(parsed_ingredients) :
               i # j => parsed_ingredients[i] # parsed_ingredients[j]
        /\ \E i \in 1..Len(preferences) :
               \/ contains(<<"q", "u", "i", "c", "k">>, preferences[i])
               \/ contains(<<"2", " ", "s", "e", "r", "v", "i", "n", "g", "s">>, preferences[i])

\* what the parse_user_input call of search_recipes_with_llm_parsing extracted
second_extraction ==
    parse_user_input(user_input, client, reply_at(llm_replies, 2)).parsed.ingredients

\* [ing.strip() for ing in user_input.split(',') if ing.strip()]
comma_tokens == nonempty_parts(split(user_input, ","))

\* C16: in the natural-language search an empty extraction always triggers the
\* fallback: the search ranks with the comma-split tokens of the raw input,
\* and [] is returned without a search only when that split is empty too.
C16_EmptyExtractionFallsBack ==
    (pc = "answered" /\ second_extraction = <<>>) =>
        /\ user_ingredients = comma_tokens
        /\ comma_tokens # <<>> =>
               recommendations = hybrid_recipe_search(kb, comma_tokens, top_k, threshold,
                                                      embed_reply)
        /\ comma_tokens = <<>> => recommendations = <<>> /\ embed_calls = 0

\* the LLM answered without a labelled line and the comma split found recipes
C16_Witness ==
    /\ pc = "answered"
    /\ client
    /\ llm_replies[2] = UnlabelledReply
    /\ second_extraction = <<>>
    /\ comma_tokens # <<>>
    /\ recommendations # <<>>

---------------------------------------------------------------------------
(* Properties of the repeated /search-recipes request *)

---------------------------------------------------------------------------
(* Properties of the /ingest-recipes request *)

\* C11: a load_recipes_from_kb that runs while save_recipes_to_kb is writing
\* returns the complete previous corpus or the complete new corpus, never an
\* empty, truncated or partly written one.
C11_AtomicReplacement ==
    [][(pc = "saving" /\ observed' # observed) => observed'[1] \in {previous, pending}]_vars


\* the cell is there and holds more than blanks
has_text(field) == field.kind = "text" /\ strip(field.text) # <<>>

\* the row has a title and ingredients
has_title_and_ingredients(row) ==
    has_text(row.title) /\ (has_text(row.ingredient) \/ has_text(row.ingredients))

\* C13: CSV ingestion skips every row whose title or ingredients is missing or
\* blank and goes on with the next rows: the recipes of a file are those of its
\* rows that have both, each with non-empty title and ingredients.
C13_BlankRowsSkipped ==
    pc = "saving" =>
        /\ Len(pending) = Cardinality({i \in 1..Len(uploads[file_pos].rows) :
                                          has_title_and_ingredients(uploads[file_pos].rows[i])})
        /\ \A i \in 1..Len(pending) :
               pending[i].title # <<>> /\ pending[i].ingredients # <<>>

\* the rows of the file that process_csv_recipes admits, none when the handler
\* leaves the file out (not *.csv, or not readable to its end)
rows_succeeded(file) ==
    IF file.is_csv /\ file.readable THEN Len(process_csv_recipes(file.rows)) ELSE 0

\* C14: the ingestion request fails (HTTP 400) only if no row of any submitted
\* file succeeded; skipped rows and failing files do not make it fail while a
\* row of some file succeeds.
C14_FailsOnlyWithoutRows ==
    /\ pc = "failed" =>
           /\ \A i \in 1..Len(uploads) : rows_succeeded(uploads[i]) = 0
           /\ total_recipes = 0
    /\ (pc \in {"failed", "ingested"}
        /\ \E i \in 1..Len(uploads) : rows_succeeded(uploads[i]) > 0) => pc = "ingested"

\* a request that succeeds with a skipped row, a failing file and a good row
C14_Witness ==
    /\ pc = "ingested"
    /\ \E i \in 1..Len(uploads) : ~uploads[i].readable
    /\ \E i \in 1..Len(uploads) :
           /\ rows_succeeded(uploads[i]) > 0
           /\ rows_succeeded(uploads[i]) < Len(uploads[i].rows)
    /\ total_recipes > 0

---------------------------------------------------------------------------
(* Properties of the service functions called by themselves *)

count_of(s, c) == Cardinality({i \in 1..Len(s) : s[i] = c})

\* the occurrences of the character c in the tokens of a list
count_in_tokens(tokens, c) ==
    LET S[i \in 0..Len(tokens)] == IF i = 0 THEN 0 ELSE S[i - 1] + count_of(tokens[i], c)
    IN  S[Len(tokens)]

\* the positions in Separators of the separators that occur in the text
separators_in(text) == {k \in 1..Len(Separators) : Separators[k] \in Range(text)}

\* C21: normalize_ingredients splits on exactly one separator, the first of
\* [",", ";", newline, "|"] that occurs anywhere in the text, never on a
\* lower-priority one that is present too: no token holds the chosen separator,
\* there is at most one token more than the separator occurs, and the
\* lower-priority ";" and "|" of the text all stay inside the tokens; without
\* a separator the whole string is the single ingredient.
C21_FirstSeparatorWins ==
    call.function = "normalize_ingredients" =>
        LET text == call.arguments[1]
            tokens == call.result
            found == separators_in(text)
        IN  /\ \A i \in 1..Len(tokens) : contains(tokens[i], lower(text))
            /\ found = {} => Len(tokens) <= 1
            /\ found # {} =>
                   LET first == Min(found)
                   IN  /\ count_in_tokens(tokens, Separators[first]) = 0
                       /\ Len(tokens) <= count_of(text, Separators[first]) + 1
                       /\ \A k \in found :
                              (k > first /\ Separators[k] \notin Whitespace) =>
                                  count_in_tokens(tokens, Separators[k])
                                      = count_of(text, Separators[k])

\* a text with a comma and a semicolon gives two tokens, one holding the semicolon
C21_Witness ==
    /\ call.function = "normalize_ingredients"
    /\ "," \in Range(call.arguments[1])
    /\ ";" \in Range(call.arguments[1])
    /\ Len(call.result) = 2
    /\ count_in_tokens(call.result, ";") = 1

\* the text holds nothing but separators, whitespace and digits
is_degenerate(text) ==
    Range(text) \subseteq (Range(Separators) \cup Whitespace \cup Digits)

\* C22: every token normalize_ingredients returns is non-empty, lowercase,
\* without leading or trailing whitespace and without leading digits; a text
\* that is empty or holds only separators, whitespace and digits gives [],
\* and the function never fails.
C22_CleanTokens ==
    call.function = "normalize_ingredients" =>
        /\ ~call.raised
        /\ \A i \in 1..Len(call.result) :
               LET token == call.result[i]
               IN  /\ token # <<>>
                   /\ lower(token) = token
                   /\ strip(token) = token
                   /\ token[1] \notin Digits
        /\ is_degenerate(call.arguments[1]) => call.result = <<>>

\* C23: cosine_similarity never raises, returns 0.0 when a vector has norm 0,
\* and otherwise dot(a, b) / (norm(a) * norm(b)).
C23_CosineTotal ==
    call.function = "cosine_similarity" =>
        LET vec_a == call.arguments[1]
            vec_b == call.arguments[2]
        IN  /\ ~call.raised
            /\ (Dot(vec_a, vec_a) = 0 \/ Dot(vec_b, vec_b) = 0) => call.result = 0
            /\ (Len(vec_a) = Len(vec_b) /\ Dot(vec_a, vec_a) # 0 /\ Dot(vec_b, vec_b) # 0) =>
                   /\ call.result * Norm(vec_a) * Norm(vec_b) = SimScale * Dot(vec_a, vec_b)
                   /\ (call.result * call.result) * (Dot(vec_a, vec_a) * Dot(vec_b, vec_b))
                          = (SimScale * SimScale) * (Dot(vec_a, vec_b) * Dot(vec_a, vec_b))

\* a cosine strictly between 0 and 1 of two vectors of norm 5
C23_Witness ==
    /\ call.function = "cosine_similarity"
    /\ Dot(call.arguments[1], call.arguments[1]) = 5 * 5
    /\ Dot(call.arguments[2], call.arguments[2]) = 5 * 5
    /\ call.result > 0
    /\ call.result < SimScale

\* C30: generate_ingredient_embeddings returns every input recipe once and in
\* input order whether or not its get_embedding call fails; a recipe whose call
\* fails is kept without an embedding.
C30_EveryRecipeKept ==
    call.function = "generate_ingredient_embeddings" =>
        LET recipes == call.arguments[1]
            replies == call.arguments[2]
            returned == call.result
        IN  /\ ~call.raised
            /\ Len(returned) = Len(recipes)
            /\ \A i \in 1..Len(returned) :
                   /\ returned[i].id = recipes[i].id
                   /\ returned[i].title = recipes[i].title
                   /\ returned[i].ingredients = recipes[i].ingredients
                   /\ returned[i].steps = recipes[i].steps
                   /\ replies[i] = None => returned[i].embedding = None
                   /\ replies[i] # None => returned[i].embedding = replies[i]

\* a failing call between two calls that succeed
C30_Witness ==
    /\ call.function = "generate_ingredient_embeddings"
    /\ Len(call.result) = 3
    /\ call.arguments[2] = <<Some(<<1, 0>>), None, Some(<<1, 0>>)>>
    /\ call.result[2].embedding = None
    /\ call.result[3].embedding # None

\* the tokens are pairwise different and each is longer than one character
distinct_long_tokens(tokens) ==
    /\ \A i, j \in 1..Len(tokens) : i # j => tokens[i] # tokens[j]
    /\ \A i \in 1..Len(tokens) : Len(tokens[i]) > 1

\* the tokens are those of the list found, each at the place of its first
\* occurrence there
in_first_occurrence_order(tokens, found) ==
    /\ Range(tokens) = Range(found)
    /\ \A i, j \in 1..Len(tokens) :
           i < j => position_of(found, tokens[i]) < position_of(found, tokens[j])

\* no ingredient pattern matches anywhere in the lowercased text
no_ingredient_match(text) ==
    \A i \in 1..Len(ingredient_patterns) : findall(ingredient_patterns[i], lower(text)) = <<>>

\* the stripped parts, longer than one character, of the text cut at each
\* comma or semicolon
comma_semicolon_split(text) ==
    LET cuts == <<0>> \o SelectSeq([i \in 1..Len(text) |-> IF text[i] \in {",", ";"} THEN i ELSE 0],
                                   LAMBDA i : i > 0) \o <<Len(text) + 1>>
        parts == [n \in 1..(Len(cuts) - 1) |-> strip(SubSeq(text, cuts[n] + 1, cuts[n + 1] - 1))]
    IN  SelectSeq(parts, LAMBDA part : Len(part) > 1)

\* C25: the regex fallback returns ingredient and preference lists without
\* duplicates, in first-occurrence order, of tokens longer than one character;
\* when no ingredient pattern matches, the ingredients are the comma/semicolon
\* split of the whole input.
C25_FallbackLists ==
    call.function = "_fallback_parsing" =>
        LET text == call.arguments[1]
            found == collect(ingredient_patterns, lower(text))
        IN  /\ distinct_long_tokens(call.result.ingredients)
            /\ distinct_long_tokens(call.result.preferences)
            /\ found # <<>> => in_first_occurrence_order(call.result.ingredients, found)
            /\ in_first_occurrence_order(call.result.preferences,
                                         collect(preference_patterns, lower(text)))
            /\ no_ingredient_match(text) =>
                   in_first_occurrence_order(call.result.ingredients,
                                             comma_semicolon_split(text))

\* a text without ingredient pattern whose split repeats a token and drops a
\* one-character one
C25_Witness ==
    /\ call.function = "_fallback_parsing"
    /\ no_ingredient_match(call.arguments[1])
    /\ count_of(call.arguments[1], ",") + count_of(call.arguments[1], ";") = 3
    /\ Len(comma_semicolon_split(call.arguments[1])) = 3
    /\ Len(call.result.ingredients) = 2

---------------------------------------------------------------------------
(* Properties of the hybrid ranker and of embeddings of another length *)

\* the recipe at corpus position n has an embedding whose length differs from
\* the query embedding's
has_other_dimension(n) ==
    /\ kb[n].embedding # None
    /\ kb[n].embedding[1] # <<>>
    /\ Len(kb[n].embedding[1]) # Len(embed_reply[1])

\* C24: a recipe embedding whose length differs from the query embedding's is
\* a hard failure of the search: the search fails, and no such recipe is
\* scored and returned as a semantic candidate.
C24_OtherDimensionFails ==
    (pc = "searched" /\ SemanticPath) =>
        \A n \in 1..Len(kb) :
            has_other_dimension(n) =>
                /\ raised
                /\ \A i \in 1..Len(semantic_results) : ~built_from(semantic_results[i], n)

\* C26: for top_k > 0 every recommendation the semantic retriever returned is
\* in the list hybrid_recipe_search returns, which holds at most top_k
\* recommendations: a keyword supplement never displaces a semantic one, even
\* one with a lower match_score.
C26_SemanticResultsKept ==
    (pc = "searched" /\ top_k > 0) =>
        /\ Len(recommendations) <= top_k
        /\ \A i \in 1..Len(semantic_results) :
               \E j \in 1..Len(recommendations) : recommendations[j] = semantic_results[i]

\* a full list in which a keyword supplement stands before the semantic
\* recommendation, whose match_score is lower
C26_Witness ==
    /\ pc = "searched"
    /\ SemanticPath
    /\ top_k = 2
    /\ Len(recommendations) = top_k
    /\ semantic_results = <<recommendations[2]>>
    /\ recommendations[1].recipe_id # recommendations[2].recipe_id
    /\ recommendations[1].match_score > recommendations[2].match_score

---------------------------------------------------------------------------
(* Properties of the responses of /search-recipes-llm and /ingest-recipes *)

\* C28: in the response of a natural-language search, parsed_ingredients is
\* the ingredient list that was passed to hybrid_recipe_search to produce the
\* recommendations, whatever the LLM does.
C28_ParsedIsSearched ==
    (pc = "answered" /\ user_ingredients # <<>>) => parsed_ingredients = user_ingredients

\* the recipes every processed file of the request contributed, in file order
recipes_counted ==
    flatten([i \in 1..Len(processed_files) |->
                process_csv_recipes(uploads[processed_files[i]].rows)])

\* C29: after a successful ingestion of one or more CSV files the knowledge
\* base holds every recipe counted in total_recipes: as many recipes can be
\* loaded as were reported, those of an earlier file of the request included.
C29_TotalIsLoadable ==
    pc = "ingested" =>
        /\ Len(read_kb(kb, kb_open)) = total_recipes
        /\ \A i \in 1..Len(recipes_counted) :
               \E n \in 1..Len(read_kb(kb, kb_open)) :
                   /\ read_kb(kb, kb_open)[n].recipe_id = recipes_counted[i].id
                   /\ read_kb(kb, kb_open)[n].title = recipes_counted[i].title
                   /\ read_kb(kb, kb_open)[n].ingredients = recipes_counted[i].ingredients

---------------------------------------------------------------------------
(* Properties of hybrid_recipe_search beside an ingestion *)

\* C27: the recommendations of one hybrid_recipe_search call come from a
\* single corpus snapshot, also when an ingestion replaces the knowledge base
\* during the search: the list is what the search returns on the corpus its
\* first load saw, or on the corpus that replaced it.
C27_SingleSnapshot ==
    pc = "searched" =>
        \E file \in {observed[1], kb} :
            recommendations = hybrid_recipe_search(file, user_ingredients, top_k, threshold,
                                                   embed_reply)

=============================================================================
